---- MODULE Spec2Model ----
(***************************************************************************)
(* Model of src/M1Actividad.py: VacuumModel (the tick scheduler, the grid  *)
(* and the dirty-cell set) and VacuumAgent (the clean-or-walk rule).       *)
(*                                                                         *)
(* The constructor and model.step() are followed statement by statement:   *)
(* pc is the position inside VacuumModel.__init__ ("seed": the while loop  *)
(* of lines 52-55) or inside VacuumModel.step ("loop": head of the for     *)
(* loop of line 73, "acc": between agent.step() and lines 75-76), and      *)
(* "idle" is the engine at rest between two calls of step().               *)
(***************************************************************************)
EXTENDS Integers, Sequences, FiniteSets

\* ---------------------------------------------------------------- bounds
MaxCells  == 4   \* the grids tried are all M x N with M * N <= MaxCells
MaxAgents == 2   \* num_agents ranges over 0..MaxAgents
MaxBudget == 2   \* tiempo_max ranges over 0..MaxBudget
MaxTicks  == 3   \* step() is called at most MaxTicks times in a behaviour

\* Percentages tried for porcentaje_sucias: inside [0,100], below 0, above 100.
Percentages == {-50, 0, 30, 50, 100, 150}

VARIABLES
    M, N, num_agents, porcentaje_sucias, tiempo_max,  \* constructor arguments
    pc,            \* position in __init__ / step
    dirty_cells,   \* self.dirty_cells
    unique_id,     \* agent object -> its unique_id
    pos,           \* agent object -> its position on the grid
    moves,         \* agent object -> its moves counter
    agents_list,   \* self.agents_list, a sequence of agent objects
    idx,           \* index of the for loop of step() into agents_list
    step_count, total_moves, running,
    relocations,   \* history: number of grid.move_agent calls executed so far
    everEq,        \* history: some tick ended with no dirt or step_count = tiempo_max
    everGe,        \* history: some tick ended with no dirt or step_count >= tiempo_max
    initial_dirty, \* history: len(dirty_cells) when the constructor returned
    cleanings,     \* history: number of dirty_cells.remove calls executed so far
    acted,         \* history: agent object -> its turns in the current tick
    tickEndPos     \* history: the positions at the end of the last tick (or construction)

vars == <<M, N, num_agents, porcentaje_sucias, tiempo_max, pc, dirty_cells,
          unique_id, pos, moves, agents_list, idx, step_count, total_moves,
          running, relocations, everEq, everGe, initial_dirty, cleanings, acted,
          tickEndPos>>

config == <<M, N, num_agents, porcentaje_sucias, tiempo_max>>

\* ------------------------------------------------------------- helpers

\* Python's int() of the quotient a / 100: truncation toward zero.
IntTrunc(a, b) == IF a >= 0 THEN a \div b ELSE -((-a) \div b)

\* line 49-50: num_sucias = int(total_celdas * porcentaje_sucias / 100)
num_sucias == IntTrunc((M * N) * porcentaje_sucias, 100)

\* The cells of the MultiGrid(M, N): [0,M) x [0,N).
Cells == (0 .. M - 1) \X (0 .. N - 1)

\* grid.out_of_bounds(pos)
out_of_bounds(p) == p[1] < 0 \/ p[1] >= M \/ p[2] < 0 \/ p[2] >= N

\* lines 53-54: the coordinates randrange(M), randrange(N) can draw.
SeedDraws == (0 .. M - 1) \X (0 .. N - 1)

\* lines 25-28: the Moore neighbourhood of p without its centre, on a grid that
\* does not wrap (torus=False), filtered to the cells inside the grid.
valid_neighbors_Unfiltered(p) ==
    {<<p[1] + dx, p[2] + dy>> : dx \in -1 .. 1, dy \in -1 .. 1} \ {p}
valid_neighbors_Torus(p) ==
    {<<(p[1] + dx) % M, (p[2] + dy) % N>> : dx \in -1 .. 1, dy \in -1 .. 1} \ {p}
valid_neighbors(p) ==
    {q \in ({<<p[1] + dx, p[2] + dy>> : dx \in -1 .. 1, dy \in -1 .. 1} \ {p}) :
        ~out_of_bounds(q)}

\* random.shuffle: every ordering of the same agents.
Shuffles_WithReplacement(s) == [1 .. Len(s) -> {s[i] : i \in 1 .. Len(s)}]
Shuffles(s) ==
    {t \in [1 .. Len(s) -> {s[i] : i \in 1 .. Len(s)}] :
        \A i, j \in 1 .. Len(s) : i # j => t[i] # t[j]}

\* line 81: the termination test.
ShouldStop_Strict(dirty, sc) == dirty = {} \/ sc > tiempo_max
ShouldStop_And(dirty, sc) == dirty = {} /\ sc >= tiempo_max
ShouldStop(dirty, sc) == dirty = {} \/ sc >= tiempo_max

\* ---------------------------------------------------------------- Init
\* The constructor has run lines 41-51: Mesa's Model.__init__ has set running,
\* the arguments are stored, dirty_cells is the empty set, no agent exists.
Init ==
    /\ M \in 1 .. MaxCells
    /\ N \in 1 .. MaxCells
    /\ M * N <= MaxCells
    /\ num_agents \in 0 .. MaxAgents
    /\ porcentaje_sucias \in Percentages
    /\ tiempo_max \in 0 .. MaxBudget
    /\ pc = "seed"
    /\ dirty_cells = {}
    /\ unique_id = <<>>
    /\ pos = <<>>
    /\ moves = <<>>
    /\ agents_list = <<>>
    /\ idx = 0
    /\ step_count = 0
    /\ total_moves = 0
    /\ running = TRUE
    /\ relocations = 0
    /\ everEq = FALSE
    /\ everGe = FALSE
    /\ initial_dirty = 0
    /\ cleanings = 0
    /\ acted = <<>>
    /\ tickEndPos = <<>>

\* ------------------------------------------------------------- __init__
\* lines 52-55: one iteration of the rejection-sampling loop.
SeedDraw_Inclusive ==
    /\ pc = "seed"
    /\ Cardinality(dirty_cells) <= num_sucias
    /\ \E c \in SeedDraws : dirty_cells' = dirty_cells \cup {c}
    /\ UNCHANGED <<config, pc, unique_id, pos, moves, agents_list, idx,
                   step_count, total_moves, running, relocations, everEq, everGe,
                   initial_dirty, cleanings, acted, tickEndPos>>
SeedDraw ==
    /\ pc = "seed"
    /\ Cardinality(dirty_cells) < num_sucias
    /\ \E c \in SeedDraws : dirty_cells' = dirty_cells \cup {c}
    /\ UNCHANGED <<config, pc, unique_id, pos, moves, agents_list, idx,
                   step_count, total_moves, running, relocations, everEq, everGe,
                   initial_dirty, cleanings, acted, tickEndPos>>

\* lines 58-68: the loop is over; create the agents at (0,0), zero the counters.
CreateAgents_OneBased ==
    /\ pc = "seed"
    /\ ~(Cardinality(dirty_cells) < num_sucias)
    /\ unique_id' = [k \in 1 .. num_agents |-> k]
    /\ pos' = [k \in 1 .. num_agents |-> <<0, 0>>]
    /\ moves' = [k \in 1 .. num_agents |-> 0]
    /\ agents_list' = [k \in 1 .. num_agents |-> k]
    /\ step_count' = 0
    /\ total_moves' = 0
    /\ pc' = "idle"
    /\ UNCHANGED <<config, dirty_cells, idx, running, relocations, everEq, everGe,
                   cleanings>>
    /\ initial_dirty' = Cardinality(dirty_cells)
    /\ acted' = [k \in 1 .. num_agents |-> 0]
    /\ tickEndPos' = [k \in 1 .. num_agents |-> <<0, 0>>]
CreateAgents ==
    /\ pc = "seed"
    /\ ~(Cardinality(dirty_cells) < num_sucias)
    /\ unique_id' = [k \in 1 .. num_agents |-> k - 1]
    /\ pos' = [k \in 1 .. num_agents |-> <<0, 0>>]
    /\ moves' = [k \in 1 .. num_agents |-> 0]
    /\ agents_list' = [k \in 1 .. num_agents |-> k]
    /\ step_count' = 0
    /\ total_moves' = 0
    /\ pc' = "idle"
    /\ UNCHANGED <<config, dirty_cells, idx, running, relocations, everEq, everGe,
                   cleanings>>
    /\ initial_dirty' = Cardinality(dirty_cells)
    /\ acted' = [k \in 1 .. num_agents |-> 0]
    /\ tickEndPos' = [k \in 1 .. num_agents |-> <<0, 0>>]

\* ----------------------------------------------------------------- step
\* line 72: step() is entered (the code has no guard on running) and shuffles.
StepBegin ==
    /\ pc = "idle"
    /\ step_count < MaxTicks
    /\ agents_list' \in Shuffles(agents_list)
    /\ idx' = 1
    /\ pc' = "loop"
    /\ UNCHANGED <<config, dirty_cells, unique_id, pos, moves, step_count,
                   total_moves, running, relocations, everEq, everGe,
                   initial_dirty, cleanings, tickEndPos>>
    /\ acted' = [k \in DOMAIN acted |-> 0]

\* line 74 with lines 15-34: agent.step() of the agent at agents_list[idx].
AgentStep_NoReturn ==
    /\ pc = "loop"
    /\ idx <= Len(agents_list)
    /\ LET a == agents_list[idx]
           nb == valid_neighbors(pos[a])
       IN /\ dirty_cells' = dirty_cells \ {pos[a]}
          /\ IF nb # {}
                THEN /\ \E q \in nb : pos' = [pos EXCEPT ![a] = q]
                     /\ moves' = [moves EXCEPT ![a] = @ + 1]
                     /\ relocations' = relocations + 1
                ELSE UNCHANGED <<pos, moves, relocations>>
    /\ pc' = "acc"
    /\ UNCHANGED <<config, unique_id, agents_list, idx, step_count, total_moves,
                   running, everEq, everGe,
                   initial_dirty, tickEndPos>>
    /\ acted' = [acted EXCEPT ![agents_list[idx]] = @ + 1]
    /\ cleanings' = IF pos[agents_list[idx]] \in dirty_cells THEN cleanings + 1
                                                            ELSE cleanings
AgentStep_Toggle ==
    /\ pc = "loop"
    /\ idx <= Len(agents_list)
    /\ LET a == agents_list[idx]
       IN IF pos[a] \in dirty_cells
             THEN dirty_cells' = dirty_cells \ {pos[a]}
             ELSE dirty_cells' = dirty_cells \cup {pos[a]}
    /\ pc' = "acc"
    /\ UNCHANGED <<config, unique_id, pos, moves, agents_list, idx, step_count,
                   total_moves, running, relocations, everEq, everGe,
                   initial_dirty, tickEndPos>>
    /\ acted' = [acted EXCEPT ![agents_list[idx]] = @ + 1]
    /\ cleanings' = IF pos[agents_list[idx]] \in dirty_cells THEN cleanings + 1
                                                            ELSE cleanings
AgentStep_NoCount ==
    /\ pc = "loop"
    /\ idx <= Len(agents_list)
    /\ LET a == agents_list[idx]
           nb == valid_neighbors(pos[a])
       IN IF pos[a] \in dirty_cells
             THEN /\ dirty_cells' = dirty_cells \ {pos[a]}
                  /\ UNCHANGED <<pos, relocations>>
             ELSE IF nb # {}
                     THEN /\ \E q \in nb : pos' = [pos EXCEPT ![a] = q]
                          /\ relocations' = relocations + 1
                          /\ UNCHANGED dirty_cells
                     ELSE UNCHANGED <<dirty_cells, pos, relocations>>
    /\ pc' = "acc"
    /\ UNCHANGED <<config, unique_id, moves, agents_list, idx, step_count, total_moves,
                   running, everEq, everGe, initial_dirty, tickEndPos>>
    /\ acted' = [acted EXCEPT ![agents_list[idx]] = @ + 1]
    /\ cleanings' = IF pos[agents_list[idx]] \in dirty_cells THEN cleanings + 1
                                                            ELSE cleanings
AgentStep_CleanOnArrival ==
    /\ pc = "loop"
    /\ idx <= Len(agents_list)
    /\ LET a == agents_list[idx]
           nb == valid_neighbors(pos[a])
       IN IF pos[a] \in dirty_cells
             THEN /\ dirty_cells' = dirty_cells \ {pos[a]}
                  /\ cleanings' = cleanings + 1
                  /\ UNCHANGED <<pos, moves, relocations>>
             ELSE IF nb # {}
                     THEN /\ \E q \in nb :
                               /\ pos' = [pos EXCEPT ![a] = q]
                               /\ dirty_cells' = dirty_cells \ {q}
                               /\ cleanings' = IF q \in dirty_cells THEN cleanings + 1
                                                                    ELSE cleanings
                          /\ moves' = [moves EXCEPT ![a] = @ + 1]
                          /\ relocations' = relocations + 1
                     ELSE UNCHANGED <<dirty_cells, pos, moves, relocations, cleanings>>
    /\ pc' = "acc"
    /\ UNCHANGED <<config, unique_id, agents_list, idx, step_count, total_moves,
                   running, everEq, everGe, initial_dirty, tickEndPos>>
    /\ acted' = [acted EXCEPT ![agents_list[idx]] = @ + 1]
AgentStep ==
    /\ pc = "loop"
    /\ idx <= Len(agents_list)
    /\ LET a == agents_list[idx]
           nb == valid_neighbors(pos[a])
       IN IF pos[a] \in dirty_cells
             THEN /\ dirty_cells' = dirty_cells \ {pos[a]}
                  /\ UNCHANGED <<pos, moves, relocations>>
             ELSE IF nb # {}
                     THEN /\ \E q \in nb : pos' = [pos EXCEPT ![a] = q]
                          /\ moves' = [moves EXCEPT ![a] = @ + 1]
                          /\ relocations' = relocations + 1
                          /\ UNCHANGED dirty_cells
                     ELSE UNCHANGED <<dirty_cells, pos, moves, relocations>>
    /\ pc' = "acc"
    /\ UNCHANGED <<config, unique_id, agents_list, idx, step_count, total_moves,
                   running, everEq, everGe,
                   initial_dirty, tickEndPos>>
    /\ acted' = [acted EXCEPT ![agents_list[idx]] = @ + 1]
    /\ cleanings' = IF pos[agents_list[idx]] \in dirty_cells THEN cleanings + 1
                                                            ELSE cleanings

\* lines 75-76: add the agent's counter to the total and reset it.
Accumulate_Assign ==
    /\ pc = "acc"
    /\ total_moves' = moves[agents_list[idx]]
    /\ moves' = [moves EXCEPT ![agents_list[idx]] = 0]
    /\ idx' = idx + 1
    /\ pc' = "loop"
    /\ UNCHANGED <<config, dirty_cells, unique_id, pos, agents_list, step_count,
                   running, relocations, everEq, everGe,
                   initial_dirty, cleanings, acted, tickEndPos>>
Accumulate_NoReset ==
    /\ pc = "acc"
    /\ total_moves' = total_moves + moves[agents_list[idx]]
    /\ idx' = idx + 1
    /\ pc' = "loop"
    /\ UNCHANGED <<config, dirty_cells, unique_id, pos, moves, agents_list, step_count,
                   running, relocations, everEq, everGe,
                   initial_dirty, cleanings, acted, tickEndPos>>
Accumulate ==
    /\ pc = "acc"
    /\ total_moves' = total_moves + moves[agents_list[idx]]
    /\ moves' = [moves EXCEPT ![agents_list[idx]] = 0]
    /\ idx' = idx + 1
    /\ pc' = "loop"
    /\ UNCHANGED <<config, dirty_cells, unique_id, pos, agents_list, step_count,
                   running, relocations, everEq, everGe,
                   initial_dirty, cleanings, acted, tickEndPos>>

\* lines 78-82: the for loop is over; count the tick and test for termination.
EndTick ==
    /\ pc = "loop"
    /\ idx > Len(agents_list)
    /\ step_count' = step_count + 1
    /\ running' = IF ShouldStop(dirty_cells, step_count + 1) THEN FALSE ELSE running
    /\ everEq' = (everEq \/ dirty_cells = {} \/ step_count + 1 = tiempo_max)
    /\ everGe' = (everGe \/ dirty_cells = {} \/ step_count + 1 >= tiempo_max)
    /\ pc' = "idle"
    /\ UNCHANGED <<config, dirty_cells, unique_id, pos, moves, agents_list, idx,
                   total_moves, relocations,
                   initial_dirty, cleanings, acted>>
    /\ tickEndPos' = pos

Next ==
    \/ SeedDraw
    \/ CreateAgents
    \/ StepBegin
    \/ AgentStep
    \/ Accumulate
    \/ EndTick

Spec == Init /\ [][Next]_vars

\* lines 95-96: the loop of __main__ calls step() only while running holds.
StepBeginMain == running /\ StepBegin

NextMain ==
    \/ SeedDraw
    \/ CreateAgents
    \/ StepBeginMain
    \/ AgentStep
    \/ Accumulate
    \/ EndTick

\* The program is one thread that keeps executing: whenever a statement that
\* changes the state can run, one does (a seeding draw of a cell that is still
\* absent among them, since randrange is uniform).
SpecMain == Init /\ [][NextMain]_vars /\ WF_vars(NextMain)

\* The constructor alone. A draw of randrange is uniform, so a cell that is
\* still absent is drawn sooner or later: strong fairness on the draws that
\* add a cell; the statements after the loop run once the loop is over.
SeedNew == SeedDraw /\ dirty_cells' # dirty_cells

NextCtor ==
    \/ SeedDraw
    \/ CreateAgents

SpecCtor == Init /\ [][NextCtor]_vars /\ SF_vars(SeedNew) /\ WF_vars(CreateAgents)

\* ------------------------------------------------------------ properties

ValidPercentage == porcentaje_sucias >= 0 /\ porcentaje_sucias <= 100

\* The constructor has returned and step() has not been called yet.
Built == pc = "idle" /\ step_count = 0

Finished == ~running

C2_FinishedStepRejected ==
    [][Finished => UNCHANGED <<step_count, total_moves, dirty_cells, pos>>]_vars

\* C3: after construction the registry only shrinks: across every step of
\* step() the new registry is a subset of the old one.
C3_MonotonicCleanup ==
    [][pc # "seed" => dirty_cells' \subseteq dirty_cells]_vars

C3_Witness ==
    /\ pc = "acc"
    /\ ValidPercentage
    /\ dirty_cells # {}
    /\ Cardinality(dirty_cells) < num_sucias

\* C4: at the end of every tick the total-moves counter equals the number of
\* moves the agents have made in all the ticks so far.
C4_Conservation == pc = "idle" => total_moves = relocations

C4_Witness ==
    /\ pc = "idle"
    /\ num_agents = 2
    /\ step_count >= 2
    /\ relocations >= 3

\* C5: every agent position and every dirty coordinate (x,y) has 0 <= x < M
\* and 0 <= y < N, in every reachable state.
C5_Bounds ==
    /\ \A k \in DOMAIN pos :
          0 <= pos[k][1] /\ pos[k][1] < M /\ 0 <= pos[k][2] /\ pos[k][2] < N
    /\ \A c \in dirty_cells :
          0 <= c[1] /\ c[1] < M /\ 0 <= c[2] /\ c[2] < N

C5_Witness ==
    /\ dirty_cells # {}
    /\ \E k \in DOMAIN pos : pos[k] = <<M - 1, N - 1>> /\ pos[k] # <<0, 0>>

\* C6: an agent's move counter is 0 or 1 whenever it is added to the total (and
\* at any other time), and it is 0 at every tick boundary: between ticks, before
\* the first agent of a tick is activated and after the last one.
C6_BoundedMoves ==
    \A k \in DOMAIN moves :
        /\ moves[k] \in {0, 1}
        /\ (pc = "idle" \/ (pc = "loop" /\ (idx = 1 \/ idx > Len(agents_list))))
              => moves[k] = 0

C6_Witness ==
    /\ pc = "acc"
    /\ step_count >= 1
    /\ moves[agents_list[idx]] = 1

\* C7: a turn of an agent on a dirty cell removes exactly that cell and leaves
\* every position and move counter unchanged; a turn on a clean cell leaves the
\* registry unchanged and touches no other agent; no turn both cleans and moves.
C7_TurnExclusive ==
    [][(pc = "loop" /\ idx <= Len(agents_list)) =>
         LET a == agents_list[idx]
         IN /\ IF pos[a] \in dirty_cells
                  THEN /\ dirty_cells' = dirty_cells \ {pos[a]}
                       /\ pos' = pos
                       /\ moves' = moves
                  ELSE /\ dirty_cells' = dirty_cells
                       /\ \A b \in DOMAIN pos \ {a} :
                             pos'[b] = pos[b] /\ moves'[b] = moves[b]
            /\ ~(dirty_cells' # dirty_cells /\ pos' # pos)]_vars

\* On a grid of more than one cell an agent on a clean cell always moves, so an
\* agent whose turn has just ended with a counter of 0 has cleaned its cell.
C7_Witness ==
    /\ pc = "acc"
    /\ M * N > 1
    /\ moves[agents_list[idx]] = 0
    /\ pos[agents_list[idx]] \notin dirty_cells
    /\ dirty_cells # {}

\* C8: with a percentage below 0 or above 100 the constructor never produces an
\* engine: it never gets past its seeding loop to a constructed state.
C8_InvalidPercentageRejected == ~ValidPercentage => pc = "seed"

\* C9: for a percentage in 0..100 the target floor(M*N*p/100) fits in the grid,
\* the registry holds distinct in-bounds cells and never more than the target,
\* and construction ends with exactly the target number of cells (none if 0).
C9_Seeding ==
    /\ [](ValidPercentage =>
            LET target == (M * N * porcentaje_sucias) \div 100
            IN /\ target <= M * N
               /\ dirty_cells \subseteq Cells
               /\ Cardinality(dirty_cells) <= target
               /\ Built => Cardinality(dirty_cells) = target)
    /\ (ValidPercentage ~> Built)

C9_Witness ==
    /\ Built
    /\ M * N = 4
    /\ porcentaje_sucias = 50
    /\ Cardinality(dirty_cells) = 2

\* C10: the constructor returns with agents of ids 0..n-1, all at (0,0), with
\* step count, total moves and every move counter 0, and the engine Running.
C10_InitialState ==
    [][(pc = "seed" /\ pc' = "idle") =>
         /\ DOMAIN pos' = 1 .. num_agents
         /\ DOMAIN moves' = 1 .. num_agents
         /\ DOMAIN unique_id' = 1 .. num_agents
         /\ Len(agents_list') = num_agents
         /\ {agents_list'[i] : i \in 1 .. num_agents} = 1 .. num_agents
         /\ {unique_id'[k] : k \in 1 .. num_agents} = 0 .. num_agents - 1
         /\ \A j, k \in 1 .. num_agents : j # k => unique_id'[j] # unique_id'[k]
         /\ \A k \in 1 .. num_agents : pos'[k] = <<0, 0>> /\ moves'[k] = 0
         /\ step_count' = 0
         /\ total_moves' = 0
         /\ running']_vars

C10_Witness ==
    /\ Built
    /\ num_agents = 2
    /\ Len(agents_list) = 2
    /\ running

\* C11: under the loop of __main__, every valid configuration reaches Finished.
C11_EventualTermination == ValidPercentage ~> Finished

C11_Witness ==
    /\ Finished
    /\ ValidPercentage
    /\ tiempo_max = 2
    /\ step_count = 2
    /\ dirty_cells # {}
    /\ num_agents > 0

\* C12: under the loop of __main__ the step count never exceeds the step
\* budget, for every valid configuration, the budget 0 included.
C12_BudgetIsMaximum == ValidPercentage => step_count <= tiempo_max

\* C13: with no agent, dirt at construction and a budget B >= 1, the engine is
\* Finished exactly when the step count is B, never steps past B, total moves
\* stay 0 and the registry never changes after construction.
C13_ZeroAgentRun ==
    /\ []((num_agents = 0 /\ pc # "seed" /\ initial_dirty > 0 /\ tiempo_max >= 1) =>
            /\ total_moves = 0
            /\ Cardinality(dirty_cells) = initial_dirty
            /\ step_count <= tiempo_max
            /\ Finished <=> step_count = tiempo_max)
    /\ [][(num_agents = 0 /\ pc # "seed") => dirty_cells' = dirty_cells]_vars

C13_Witness ==
    /\ num_agents = 0
    /\ tiempo_max = 2
    /\ step_count = 2
    /\ Finished
    /\ Cardinality(dirty_cells) = 2

\* C14: with percentage 0 the registry starts empty, the engine runs until the
\* first tick has ended and is then Finished with step count 1; on a grid of
\* more than one cell every agent has moved, so total moves = number of agents.
C14_ZeroDirtRun ==
    porcentaje_sucias = 0 =>
        /\ dirty_cells = {}
        /\ step_count <= 1
        /\ step_count = 0 => running
        /\ step_count = 1 =>
              /\ Finished
              /\ M * N > 1 => (total_moves = num_agents /\ relocations = num_agents)

C14_Witness ==
    /\ porcentaje_sucias = 0
    /\ tiempo_max = 2
    /\ num_agents = 2
    /\ step_count = 1
    /\ total_moves = 2
    /\ Finished

\* C15: on the 1x1 grid with percentage 100 and at least one agent, (0,0) is
\* the one dirty cell at start; tick 1 cleans it with exactly one cleaning and
\* ends Finished with step count 1; no agent ever moves and total moves stay 0.
C15_OneByOneGrid ==
    (M = 1 /\ N = 1 /\ porcentaje_sucias = 100 /\ num_agents >= 1) =>
        /\ Built => dirty_cells = {<<0, 0>>}
        /\ step_count <= 1
        /\ cleanings <= 1
        /\ total_moves = 0
        /\ relocations = 0
        /\ \A k \in DOMAIN pos : pos[k] = <<0, 0>> /\ moves[k] = 0
        /\ step_count = 1 => (Finished /\ dirty_cells = {} /\ cleanings = 1)

C15_Witness ==
    /\ M = 1
    /\ N = 1
    /\ porcentaje_sucias = 100
    /\ num_agents = 2
    /\ step_count = 1
    /\ cleanings = 1
    /\ Finished

\* C16: the activation order is always a permutation of the agents created,
\* no agent has more than one turn in a tick and each has had exactly one when
\* the tick ends; the step counter changes only at the end of a tick, by 1;
\* between ticks every permutation can be the next order.
C16_ExactlyOnce ==
    /\ [](pc # "seed" =>
            /\ Len(agents_list) = num_agents
            /\ {agents_list[i] : i \in 1 .. Len(agents_list)} = 1 .. num_agents
            /\ \A k \in DOMAIN acted : acted[k] <= 1
            /\ ((pc = "loop" /\ idx > Len(agents_list)) \/ (pc = "idle" /\ step_count > 0))
                  => \A k \in DOMAIN acted : acted[k] = 1
            /\ (pc = "idle" /\ step_count < MaxTicks)
                  => \A t \in [1 .. num_agents -> 1 .. num_agents] :
                        (\A i, j \in 1 .. num_agents : i # j => t[i] # t[j])
                           => ENABLED (StepBegin /\ agents_list' = t))
    /\ [][pc # "seed" =>
            IF pc = "loop" /\ idx > Len(agents_list)
               THEN step_count' = step_count + 1
               ELSE step_count' = step_count]_vars

C16_Witness ==
    /\ pc = "loop"
    /\ step_count = 1
    /\ agents_list = <<2, 1>>
    /\ idx = 3
    /\ \A k \in DOMAIN acted : acted[k] = 1

\* C17: a turn that moves an agent takes it to a cell inside the grid that
\* differs from the old one by at most 1 in each coordinate; on a grid of more
\* than one cell a turn on a clean cell always moves the agent.
C17_MoveGeometry ==
    [][(pc = "loop" /\ idx <= Len(agents_list)) =>
         LET a == agents_list[idx]
             dx == pos'[a][1] - pos[a][1]
             dy == pos'[a][2] - pos[a][2]
         IN /\ pos'[a] # pos[a] =>
                  /\ dx \in -1 .. 1
                  /\ dy \in -1 .. 1
                  /\ 0 <= pos'[a][1] /\ pos'[a][1] < M
                  /\ 0 <= pos'[a][2] /\ pos'[a][2] < N
            /\ (M * N > 1 /\ pos[a] \notin dirty_cells) => pos'[a] # pos[a]]_vars

C17_Witness ==
    /\ pc = "acc"
    /\ moves[agents_list[idx]] = 1
    /\ tickEndPos[agents_list[idx]] = <<0, 0>>
    /\ pos[agents_list[idx]] = <<1, 1>>

\* C18: on a grid of more than one cell, at the end of every tick, total moves
\* plus the number of cells cleaned since construction equals agents x ticks,
\* and every cleaning removed a cell of its own.
C18_Accounting ==
    (pc = "idle" /\ M * N > 1) =>
        /\ total_moves + (initial_dirty - Cardinality(dirty_cells))
              = num_agents * step_count
        /\ cleanings = initial_dirty - Cardinality(dirty_cells)

C18_Witness ==
    /\ pc = "idle"
    /\ M * N > 1
    /\ num_agents = 2
    /\ step_count = 1
    /\ total_moves = 1
    /\ Cardinality(dirty_cells) = initial_dirty - 1

\* C19: a cell leaves the registry only in the turn of an agent that stood on
\* it when the previous tick ended (at construction for tick 1) and has not
\* moved since; during tick 1 no cell other than (0,0) leaves the registry.
C19_CleaningDelay ==
    [][(pc # "seed" /\ dirty_cells' # dirty_cells) =>
         /\ pc = "loop"
         /\ idx <= Len(agents_list)
         /\ pos[agents_list[idx]] = tickEndPos[agents_list[idx]]
         /\ pos' = pos
         /\ \A c \in dirty_cells \ dirty_cells' :
               /\ \E k \in DOMAIN tickEndPos : tickEndPos[k] = c
               /\ step_count = 0 => c = <<0, 0>>]_vars

C19_Witness ==
    /\ pc = "acc"
    /\ step_count = 1
    /\ M * N > 1
    /\ moves[agents_list[idx]] = 0
    /\ pos[agents_list[idx]] # <<0, 0>>
    /\ pos[agents_list[idx]] \notin dirty_cells
    /\ cleanings >= 1

====
